---- MODULE Spec2Model ----
(***************************************************************************)
(* A model of src/src/word_generator.py: the WordGenerator class (load a   *)
(* JSON mapping of categories to word lists, validate it, serve three      *)
(* read operations) and the demo routine main().                           *)
(*                                                                         *)
(* A run is one process: either a client that constructs a WordGenerator   *)
(* and then calls its public methods in any order, or main().  Python      *)
(* values are records tagged with their type; a dict is the sequence of    *)
(* its members in insertion order, with pairwise distinct keys.            *)
(***************************************************************************)
EXTENDS Naturals, Sequences, FiniteSets, TLC

\* The longest word list of a category in the documents explored.
MaxWords == 2

\* Category names that occur as top-level keys of the documents explored.
\* json.load only ever yields str keys; "" is a legal JSON key.
Keys == {"", "nouns"}

\* Names a caller asks for: every key, and one that no document holds.
Names == Keys \cup {"nonexistent"}

-----------------------------------------------------------------------------
(* Python values as json.load produces them *)

PyStr(s) == [type |-> "str", s |-> s, items |-> <<>>]
PyInt(s) == [type |-> "int", s |-> s, items |-> <<>>]
PyList(items) == [type |-> "list", s |-> "", items |-> items]
PyNone == [type |-> "NoneType", s |-> "", items |-> <<>>]

\* isinstance(value, T) for a tagged value
isinstance(value, T) == value.type = T

\* Mutant of isinstance_key_str: a validator that also rejects the empty name
isinstance_key_str_nonempty(key) == key \in STRING /\ key # ""

\* isinstance(key, str) for a key of a parsed JSON object
isinstance_key_str(key) == key \in STRING

\* What a JSON array of the documents explored may hold: two words and a number.
Items == {PyStr("cat"), PyStr("dog"), PyInt("7")}

SeqUpTo(S, n) == UNION {[1..k -> S] : k \in 0..n}

\* The values of a top-level member: every list of at most MaxWords items, and
\* a bare string (the {"nouns": "cat"} document).
MemberValues == {PyList(l) : l \in SeqUpTo(Items, MaxWords)} \cup {PyStr("cat")}

Member(k, v) == [key |-> k, value |-> v]

\* dict objects: members in insertion order, keys pairwise distinct
Dicts ==
    {d \in SeqUpTo({Member(k, v) : k \in Keys, v \in MemberValues}, Cardinality(Keys)) :
        \A i, j \in 1..Len(d) : d[i].key = d[j].key => i = j}

PyDict(members) == [type |-> "dict", members |-> members]

\* What json.load returns: an object, or a JSON value that is not an object.
Documents ==
    {PyDict(d) : d \in Dicts} \cup {[type |-> "list", members |-> <<>>]}

\* The words file: absent, not well-formed JSON, or JSON that parses to data.
Sources ==
    {[file |-> "missing", data |-> PyDict(<<>>)],
     [file |-> "malformed", data |-> PyDict(<<>>)]}
    \cup {[file |-> "json", data |-> doc] : doc \in Documents}

-----------------------------------------------------------------------------
(* dict operations on a sequence of members *)

\* list(d.keys())
keys(d) == [i \in 1..Len(d) |-> PyStr(d[i].key)]

\* key in d
contains(d, key) == \E i \in 1..Len(d) : d[i].key = key

\* d[key], for a key in d
getitem(d, key) == d[CHOOSE i \in 1..Len(d) : d[i].key = key].value

-----------------------------------------------------------------------------
(* WordGenerator *)

\* An exception's message: its fixed text and what is formatted into it
Message(text, category, available) ==
    [text |-> text, category |-> category, available |-> available]

NoError == Message("", "", PyNone)

\* raise kind(message), out of _load_words
Raise(kind, text, category) ==
    [kind |-> kind, value |-> <<>>, error |-> Message(text, category, PyNone)]

\* _load_words: the outcome of reading, parsing and validating a source
_load_words(src) ==
    IF src.file = "missing" THEN Raise("FileNotFoundError", "", "")
    ELSE IF src.file = "malformed" THEN Raise("JSONDecodeError", "", "")
    ELSE LET data == src.data IN
      IF ~isinstance(data, "dict")
      THEN Raise("ValueError", "Words file must contain a JSON object", "")
      ELSE LET bad == {i \in 1..Len(data.members) :
                          \/ ~isinstance_key_str(data.members[i].key)
                          \/ ~isinstance(data.members[i].value, "list")}
           IN IF bad = {}
              THEN [kind |-> "ok", value |-> data.members, error |-> NoError]
              ELSE LET first == CHOOSE i \in bad : \A j \in bad : i <= j IN
                   IF ~isinstance_key_str(data.members[first].key)
                   THEN Raise("ValueError", "Category keys must be strings", "")
                   ELSE Raise("ValueError", "must contain a list of words",
                              data.members[first].key)

\* How a method call ends: "ok" and the value returned, or the exception
\* raised and its message; and self.words as the call leaves it
Outcome(kind, value, error, self_words) ==
    [kind |-> kind, value |-> value, error |-> error, words |-> self_words]

\* __init__: self.words = self._load_words(); an exception leaves no object
WordGenerator_init(src) ==
    LET loaded == _load_words(src) IN
    IF loaded.kind = "ok"
    THEN Outcome("ok", PyNone, NoError, loaded.value)
    ELSE Outcome(loaded.kind, PyNone, loaded.error, <<>>)

Reverse(seq) == [i \in 1..Len(seq) |-> seq[Len(seq) + 1 - i]]

\* Mutant of get_categories: the names in another order than the mapping's
get_categories_reversed(self_words) ==
    Outcome("ok", PyList(Reverse(keys(self_words))), NoError, self_words)

\* get_categories: list(self.words.keys())
get_categories(self_words) ==
    Outcome("ok", PyList(keys(self_words)), NoError, self_words)

\* Mutant of CategoryNotFound: a message without the list of categories
CategoryNotFound_bare(self_words, category) ==
    Outcome("KeyError", PyNone, Message("not found", category, PyNone), self_words)

\* A KeyError of either lookup: the message names the category asked for and
\* self.get_categories()
CategoryNotFound(self_words, category) ==
    Outcome("KeyError", PyNone,
            Message("not found", category, get_categories(self_words).value),
            self_words)

\* Mutant of random_choice: a source that never yields the last index
random_choice_not_last(seq) ==
    IF Len(seq) = 1 THEN {seq[1]} ELSE {seq[i] : i \in 1..(Len(seq) - 1)}

\* random.choice(seq), for a non-empty seq: the values it may return
random_choice(seq) == {seq[i] : i \in 1..Len(seq)}

\* Mutant of get_random_word: the word is drawn from the first category's list
get_random_word_first_list(self_words, category) ==
    IF ~contains(self_words, category)
    THEN {CategoryNotFound(self_words, category)}
    ELSE LET words_list == self_words[1].value.items IN
         IF Len(words_list) = 0
         THEN {Outcome("ValueError", PyNone, Message("is empty", category, PyNone),
                       self_words)}
         ELSE {Outcome("ok", w, NoError, self_words) : w \in random_choice(words_list)}

\* Mutant of get_random_word: no check for an empty list, so random.choice
\* raises IndexError on it
get_random_word_unchecked(self_words, category) ==
    IF ~contains(self_words, category)
    THEN {CategoryNotFound(self_words, category)}
    ELSE LET words_list == getitem(self_words, category).items IN
         IF Len(words_list) = 0
         THEN {Outcome("IndexError", PyNone, Message("", "", PyNone), self_words)}
         ELSE {Outcome("ok", w, NoError, self_words) : w \in random_choice(words_list)}

\* Mutant of get_random_word: the word drawn is popped from the stored list
get_random_word_pop(self_words, category) ==
    IF ~contains(self_words, category)
    THEN {CategoryNotFound(self_words, category)}
    ELSE LET words_list == getitem(self_words, category).items IN
         IF Len(words_list) = 0
         THEN {Outcome("ValueError", PyNone, Message("is empty", category, PyNone),
                       self_words)}
         ELSE {Outcome("ok", words_list[n], NoError,
                       [i \in 1..Len(self_words) |->
                          IF self_words[i].key = category
                          THEN Member(category,
                                      PyList(SubSeq(words_list, 1, n - 1)
                                             \o SubSeq(words_list, n + 1, Len(words_list))))
                          ELSE self_words[i]])
               : n \in 1..Len(words_list)}

\* get_random_word: the outcomes the call may have
get_random_word(self_words, category) ==
    IF ~contains(self_words, category)
    THEN {CategoryNotFound(self_words, category)}
    ELSE LET words_list == getitem(self_words, category).items IN
         IF Len(words_list) = 0
         THEN {Outcome("ValueError", PyNone, Message("is empty", category, PyNone),
                       self_words)}
         ELSE {Outcome("ok", w, NoError, self_words) : w \in random_choice(words_list)}

\* Mutant of get_words_in_category: a reordered copy of the stored list
get_words_in_category_reversed(self_words, category) ==
    IF ~contains(self_words, category)
    THEN CategoryNotFound(self_words, category)
    ELSE Outcome("ok", PyList(Reverse(getitem(self_words, category).items)), NoError,
                 self_words)

\* get_words_in_category: self.words[category], the stored list itself
get_words_in_category(self_words, category) ==
    IF ~contains(self_words, category)
    THEN CategoryNotFound(self_words, category)
    ELSE Outcome("ok", getitem(self_words, category), NoError, self_words)

-----------------------------------------------------------------------------
(* The process *)

VARIABLES
    caller,      \* "client": any sequence of public calls; "main": the demo
    source,      \* the words file the constructor reads
    pc,          \* where the process is
    words,       \* self.words of the WordGenerator, once constructed
    ret,         \* the last call: its name, argument, and what it returned or raised
    out,         \* the lines main has printed
    categories,  \* main's local: the list get_categories() returned
    it           \* main's for loop: how many categories it has been through

vars == <<caller, source, pc, words, ret, out, categories, it>>

NoCall ==
    [op |-> "none", arg |-> "", kind |-> "none", value |-> PyNone, error |-> NoError]

Returned(op, arg, o) ==
    [op |-> op, arg |-> arg, kind |-> o.kind, value |-> o.value, error |-> o.error]

Init ==
    /\ caller \in {"client", "main"}
    /\ source \in Sources
    /\ pc = "start"
    /\ words = <<>>
    /\ ret = NoCall
    /\ out = <<>>
    /\ categories = <<>>
    /\ it = 0

\* generator = WordGenerator(words_file), by a client
Construct ==
    /\ caller = "client"
    /\ pc = "start"
    /\ LET o == WordGenerator_init(source) IN
         /\ pc' = IF o.kind = "ok" THEN "loaded" ELSE "failed"
         /\ words' = o.words
         /\ ret' = Returned("__init__", "", o)
    /\ UNCHANGED <<caller, source, out, categories, it>>

\* generator.get_categories(), by a client
GetCategories ==
    /\ caller = "client"
    /\ pc = "loaded"
    /\ LET o == get_categories(words) IN
         /\ words' = o.words
         /\ ret' = Returned("get_categories", "", o)
    /\ UNCHANGED <<caller, source, pc, out, categories, it>>

\* generator.get_random_word(category), by a client, returning or raising as o
GetRandomWordAs(category, o) ==
    /\ caller = "client"
    /\ pc = "loaded"
    /\ o \in get_random_word(words, category)
    /\ words' = o.words
    /\ ret' = Returned("get_random_word", category, o)
    /\ UNCHANGED <<caller, source, pc, out, categories, it>>

GetRandomWord ==
    \E category \in Names :
        \E o \in get_random_word(words, category) : GetRandomWordAs(category, o)

\* generator.get_words_in_category(category), by a client
GetWordsInCategory ==
    \E category \in Names :
        /\ caller = "client"
        /\ pc = "loaded"
        /\ LET o == get_words_in_category(words, category) IN
             /\ words' = o.words
             /\ ret' = Returned("get_words_in_category", category, o)
        /\ UNCHANGED <<caller, source, pc, out, categories, it>>

-----------------------------------------------------------------------------
(* main() *)

\* One print call of main: the source line of the call and what it formats
Line(stmt, cats, category, word) ==
    [stmt |-> stmt, categories |-> cats, category |-> category, word |-> word]

Banner == <<Line(130, PyNone, "", PyNone), Line(131, PyNone, "", PyNone)>>

Closing == <<Line(143, PyNone, "", PyNone), Line(144, PyNone, "", PyNone)>>

\* generator = WordGenerator(); the banner
MainConstruct ==
    /\ caller = "main"
    /\ pc = "start"
    /\ LET o == WordGenerator_init(source) IN
         /\ words' = o.words
         /\ ret' = Returned("__init__", "", o)
         /\ IF o.kind = "ok"
            THEN pc' = "categories" /\ out' = out \o Banner
            ELSE pc' = "aborted" /\ out' = out
    /\ UNCHANGED <<caller, source, categories, it>>

\* categories = generator.get_categories(); the two prints before the loop
MainCategories ==
    /\ caller = "main"
    /\ pc = "categories"
    /\ LET o == get_categories(words) IN
         /\ words' = o.words
         /\ ret' = Returned("get_categories", "", o)
         /\ categories' = o.value.items
         /\ out' = out \o <<Line(135, o.value, "", PyNone), Line(138, PyNone, "", PyNone)>>
    /\ pc' = "loop"
    /\ it' = 0
    /\ UNCHANGED <<caller, source>>

\* Mutant of MainLoop: an empty category is skipped instead of ending main
MainLoop_skips_empty ==
    /\ caller = "main"
    /\ pc = "loop"
    /\ it < Len(categories)
    /\ LET category == categories[it + 1].s IN
       \E o \in get_random_word(words, category) :
         /\ words' = o.words
         /\ ret' = Returned("get_random_word", category, o)
         /\ out' = IF o.kind = "ok"
                   THEN Append(out, Line(141, PyNone, category, o.value))
                   ELSE out
         /\ it' = it + 1
         /\ pc' = pc
    /\ UNCHANGED <<caller, source, categories>>

\* One pass of the for loop: word = generator.get_random_word(category); print
MainLoop ==
    /\ caller = "main"
    /\ pc = "loop"
    /\ it < Len(categories)
    /\ LET category == categories[it + 1].s IN
       \E o \in get_random_word(words, category) :
         /\ words' = o.words
         /\ ret' = Returned("get_random_word", category, o)
         /\ IF o.kind = "ok"
            THEN /\ out' = Append(out, Line(141, PyNone, category, o.value))
                 /\ it' = it + 1
                 /\ pc' = pc
            ELSE /\ out' = out
                 /\ it' = it
                 /\ pc' = "aborted"
    /\ UNCHANGED <<caller, source, categories>>

\* The loop is exhausted: the closing prints, and main returns
MainClosing ==
    /\ caller = "main"
    /\ pc = "loop"
    /\ it = Len(categories)
    /\ out' = out \o Closing
    /\ pc' = "done"
    /\ UNCHANGED <<caller, source, words, ret, categories, it>>

Main == MainConstruct \/ MainCategories \/ MainLoop \/ MainClosing

Next ==
    \/ Construct
    \/ GetCategories
    \/ GetRandomWord
    \/ GetWordsInCategory
    \/ MainConstruct
    \/ MainCategories
    \/ MainLoop
    \/ MainClosing

Spec == Init /\ [][Next]_vars

\* main keeps running until it returns or an exception ends it; a client
\* keeps calling get_random_word, and the random source is fair: no outcome
\* the call can have is left out forever.
FairSpec ==
    /\ Spec
    /\ WF_vars(Main)
    /\ WF_vars(Construct)
    /\ \A category \in Keys : \A w \in Items :
         WF_vars(GetRandomWordAs(category, Outcome("ok", w, NoError, words)))

TypeOK ==
    /\ caller \in {"client", "main"}
    /\ pc \in {"start", "loaded", "failed", "categories", "loop", "done", "aborted"}
    /\ it \in 0..Cardinality(Keys)

-----------------------------------------------------------------------------
(* The source document, read directly: what the claims compare the store to *)

Elems(seq) == {seq[i] : i \in 1..Len(seq)}

SrcMembers == source.data.members

SrcKeys == [i \in 1..Len(SrcMembers) |-> SrcMembers[i].key]

\* A Python list of str
StrList(names) == PyList([i \in 1..Len(names) |-> PyStr(names[i])])

SrcHas(name) == \E i \in 1..Len(SrcMembers) : SrcMembers[i].key = name

SrcList(name) ==
    SrcMembers[CHOOSE i \in 1..Len(SrcMembers) : SrcMembers[i].key = name].value.items

\* The constructor raised
ConstructFailed == pc \in {"failed", "aborted"} /\ ret.op = "__init__"

\* The constructor returned: a WordGenerator exists
Constructed == pc # "start" /\ ~ConstructFailed

-----------------------------------------------------------------------------
(* C1 *)

\* C1: a get_random_word(c) call on a category with at least one word
\* returns, and what it returns is an element of get_words_in_category(c),
\* which is the source's word list of c; nothing outside it is returned.
C1_RandomWordInCategory ==
    (/\ ret.op = "get_random_word"
     /\ SrcHas(ret.arg)
     /\ Len(SrcList(ret.arg)) >= 1)
    => /\ ret.kind = "ok"
       /\ ret.value \in Elems(get_words_in_category(words, ret.arg).value.items)
       /\ ret.value \in Elems(SrcList(ret.arg))

\* A client drew the second of two different words of the second category,
\* whose words do not all occur in the first category.
C1_Witness ==
    /\ caller = "client"
    /\ ret.op = "get_random_word"
    /\ ret.kind = "ok"
    /\ Len(SrcKeys) = 2
    /\ ret.arg = SrcKeys[2]
    /\ Len(SrcList(ret.arg)) = 2
    /\ SrcList(ret.arg)[1] # SrcList(ret.arg)[2]
    /\ ret.value = SrcList(ret.arg)[2]
    /\ ret.value \notin Elems(SrcList(SrcKeys[1]))

-----------------------------------------------------------------------------
(* C2 *)

\* C2: get_random_word and get_words_in_category on a name that is no key of
\* the loaded mapping raise KeyError, and the error carries the name asked for
\* and the full list of categories, as get_categories() returns it.
C2_CategoryNotFound ==
    (/\ ret.op \in {"get_random_word", "get_words_in_category"}
     /\ ~SrcHas(ret.arg))
    => /\ ret.kind = "KeyError"
       /\ ret.error.text = "not found"
       /\ ret.error.category = ret.arg
       /\ ret.error.available = StrList(SrcKeys)
       /\ ret.error.available = get_categories(words).value

\* get_words_in_category("nonexistent") raised on a store of two categories.
C2_Witness ==
    /\ ret.op = "get_words_in_category"
    /\ ret.arg = "nonexistent"
    /\ ret.kind = "KeyError"
    /\ Len(words) = 2

-----------------------------------------------------------------------------
(* C3 *)

\* C3: on a category that exists with no words, get_random_word raises
\* ValueError ("is empty") and get_words_in_category returns the empty list;
\* a missing category never raises that ValueError and an existing empty one
\* never raises KeyError.
C3_EmptyCategory ==
    /\ (/\ ret.op = "get_random_word"
        /\ SrcHas(ret.arg)
        /\ Len(SrcList(ret.arg)) = 0)
       => (ret.kind = "ValueError" /\ ret.error.text = "is empty"
           /\ ret.error.category = ret.arg)
    /\ (/\ ret.op = "get_words_in_category"
        /\ SrcHas(ret.arg)
        /\ Len(SrcList(ret.arg)) = 0)
       => (ret.kind = "ok" /\ ret.value = PyList(<<>>))
    /\ (/\ ret.op \in {"get_random_word", "get_words_in_category"}
        /\ ~SrcHas(ret.arg))
       => ret.kind \notin {"ValueError", "ok"}
    /\ (/\ ret.op \in {"get_random_word", "get_words_in_category"}
        /\ SrcHas(ret.arg))
       => ret.kind # "KeyError"

\* A client asked for a random word of an empty category, beside a category
\* that has words.
C3_Witness ==
    /\ caller = "client"
    /\ ret.op = "get_random_word"
    /\ ret.kind = "ValueError"
    /\ Len(SrcList(ret.arg)) = 0
    /\ \E name \in Keys : SrcHas(name) /\ Len(SrcList(name)) > 0

-----------------------------------------------------------------------------
(* C4 *)

\* An object of string-keyed lists of strings
IsWordMapping(data) ==
    /\ data.type = "dict"
    /\ \A i \in 1..Len(data.members) :
         /\ data.members[i].key \in STRING
         /\ data.members[i].value.type = "list"
         /\ \A j \in 1..Len(data.members[i].value.items) :
              data.members[i].value.items[j].type = "str"

\* C4: constructing from a parsed document that is not an object of
\* string-keyed lists of strings raises ValueError, so in every constructed
\* store every value is a list of text items.
C4_SchemaErrorUnlessWordMapping ==
    /\ (pc # "start" /\ source.file = "json" /\ ~IsWordMapping(source.data))
       => (ConstructFailed /\ ret.kind = "ValueError")
    /\ Constructed
       => \A i \in 1..Len(words) :
            /\ words[i].value.type = "list"
            /\ \A j \in 1..Len(words[i].value.items) :
                 words[i].value.items[j].type = "str"

-----------------------------------------------------------------------------
(* C5 *)

\* C5 as claimed: in every constructed store no category name is the empty
\* string.
C5_KeysNonEmpty ==
    Constructed => \A i \in 1..Len(words) : words[i].key # ""

\* C5, amended: in every constructed store every key is text, but it may be
\* empty: a source object whose values are all lists is loaded also when a
\* key is "", and "" is then a category of the store.
C5_KeysAreText ==
    /\ Constructed => \A i \in 1..Len(words) : words[i].key \in STRING
    /\ (/\ pc # "start"
        /\ source.file = "json"
        /\ source.data.type = "dict"
        /\ \A i \in 1..Len(SrcMembers) : SrcMembers[i].value.type = "list"
        /\ SrcHas(""))
       => (Constructed /\ \E i \in 1..Len(words) : words[i].key = "")

\* A store was constructed whose second category is named "".
C5_Witness ==
    /\ Constructed
    /\ Len(words) = 2
    /\ words[2].key = ""

-----------------------------------------------------------------------------
(* C6 *)

\* C6: get_categories() returns normally, and its result is the top-level
\* keys of the source, each once, in the source's order.
C6_CategoriesAreSourceKeys ==
    ret.op = "get_categories"
    => /\ ret.kind = "ok"
       /\ ret.value = StrList(SrcKeys)
       /\ Len(ret.value.items) = Cardinality({SrcMembers[i].key : i \in 1..Len(SrcMembers)})
       /\ \A i, j \in 1..Len(ret.value.items) :
            ret.value.items[i] = ret.value.items[j] => i = j

\* A client listed the categories of a store of two.
C6_Witness ==
    /\ caller = "client"
    /\ ret.op = "get_categories"
    /\ Len(ret.value.items) = 2

-----------------------------------------------------------------------------
(* C7 *)

\* C7: for every category that get_categories() returns,
\* get_words_in_category returns normally the source's word list of that
\* category: the same elements in the same order.
C7_WordsAreSourceList ==
    (/\ ret.op = "get_words_in_category"
     /\ PyStr(ret.arg) \in Elems(get_categories(words).value.items))
    => /\ ret.kind = "ok"
       /\ SrcHas(ret.arg)
       /\ ret.value = PyList(SrcList(ret.arg))

\* A client got the two different words of the second category.
C7_Witness ==
    /\ ret.op = "get_words_in_category"
    /\ ret.kind = "ok"
    /\ Len(words) = 2
    /\ ret.arg = words[2].key
    /\ Len(ret.value.items) = 2
    /\ ret.value.items[1] # ret.value.items[2]

-----------------------------------------------------------------------------
(* C8 *)

\* C8: once the store is constructed, no call, returning or raising, changes
\* the category mapping: it stays the mapping loaded from the source.
C8_Immutable ==
    /\ [][Constructed => words' = words]_vars
    /\ [](Constructed => words = SrcMembers)

\* A client's call raised ValueError on a store of two categories.
C8_Witness ==
    /\ caller = "client"
    /\ Constructed
    /\ Len(words) = 2
    /\ ret.op = "get_random_word"
    /\ ret.kind = "ValueError"
    /\ ret.arg = words[1].key

-----------------------------------------------------------------------------
(* C9 *)

\* C9: with a fair random source and a client that keeps calling, every
\* element of the word list of every category is eventually returned by
\* get_random_word on that category.
C9_EveryWordEventuallyReturned ==
    \A category \in Keys : \A w \in Items :
        (/\ caller = "client"
         /\ pc = "loaded"
         /\ SrcHas(category)
         /\ w \in Elems(SrcList(category)))
        ~> (/\ ret.op = "get_random_word"
            /\ ret.arg = category
            /\ ret.kind = "ok"
            /\ ret.value = w)

\* A client drew the last word of a category of MaxWords different words.
C9_Witness ==
    /\ caller = "client"
    /\ ret.op = "get_random_word"
    /\ ret.kind = "ok"
    /\ Len(SrcList(ret.arg)) = MaxWords
    /\ Cardinality(Elems(SrcList(ret.arg))) > 1
    /\ ret.value = SrcList(ret.arg)[MaxWords]
    /\ ret.value # SrcList(ret.arg)[1]

-----------------------------------------------------------------------------
(* C10 *)

\* The lines main prints before the loop
Preamble ==
    Banner \o <<Line(135, StrList(SrcKeys), "", PyNone), Line(138, PyNone, "", PyNone)>>

\* lines holds one random word for each of the first n categories, in order
WordLines(lines, n) ==
    /\ Len(lines) = n
    /\ \A k \in 1..n :
         /\ lines[k].stmt = 141
         /\ lines[k].categories = PyNone
         /\ lines[k].category = SrcKeys[k]
         /\ lines[k].word \in Elems(SrcList(SrcKeys[k]))

\* The categories of the source that have no word
EmptyAt == {k \in 1..Len(SrcMembers) : Len(SrcMembers[k].value.items) = 0}

\* main ran to its end and printed everything
MainCompleted ==
    /\ pc = "done"
    /\ Len(out) = Len(SrcKeys) + 6
    /\ SubSeq(out, 1, 4) = Preamble
    /\ WordLines(SubSeq(out, 5, Len(SrcKeys) + 4), Len(SrcKeys))
    /\ SubSeq(out, Len(SrcKeys) + 5, Len(SrcKeys) + 6) = Closing

\* C10 as claimed: whenever the source loads, main prints the banner, the
\* categories, one random word per category and the closing hint, and returns;
\* only an error of the constructor makes it abort.
C10_OnlyLoadErrorsAbort ==
    caller = "main"
    => /\ pc = "done" => MainCompleted
       /\ pc = "aborted" => ConstructFailed

\* C10, amended: main always ends.  It aborts in the constructor when the
\* source does not load; it aborts with ValueError at the first category that
\* has no word, having printed the banner, the categories and one random word
\* for each category before that one; otherwise (the source loads and no
\* category is empty) it prints the banner, the categories, one random word
\* per category in get_categories() order and the closing hint, and returns.
C10_MainOutput ==
    /\ [](caller = "main" =>
            /\ pc = "done" => (MainCompleted /\ EmptyAt = {})
            /\ pc = "aborted" =>
                 \/ /\ ConstructFailed
                    /\ ret.kind \in {"FileNotFoundError", "JSONDecodeError", "ValueError"}
                    /\ out = <<>>
                 \/ /\ ret.op = "get_random_word"
                    /\ ret.kind = "ValueError"
                    /\ EmptyAt # {}
                    /\ LET k == CHOOSE e \in EmptyAt : \A f \in EmptyAt : e <= f IN
                         /\ ret.arg = SrcKeys[k]
                         /\ Len(out) = k + 3
                         /\ SubSeq(out, 1, 4) = Preamble
                         /\ WordLines(SubSeq(out, 5, k + 3), k - 1))
    /\ (caller = "main") ~> (pc \in {"done", "aborted"})
    /\ (caller = "main" /\ pc = "categories" /\ EmptyAt = {}) ~> MainCompleted
    /\ (caller = "main" /\ pc = "categories" /\ EmptyAt # {})
         ~> (pc = "aborted" /\ ret.kind = "ValueError")

\* main aborted at an empty second category after printing a word of the first.
C10_Witness ==
    /\ caller = "main"
    /\ pc = "aborted"
    /\ ret.op = "get_random_word"
    /\ Len(out) = 5
    /\ out[5].stmt = 141

====
